---- MODULE Spec2Model ----
(***************************************************************************)
(* State-machine model of goodie_bot/cli.py: the job pipeline process_job  *)
(* (deep copy and font scaling of the template, canvas creation, the       *)
(* three overlay passes, the photo loop, the text loop, naming and save),  *)
(* the job loop of main, and the pure helpers sanitize_filename,           *)
(* hex_to_rgb and fit_image.                                               *)
(*                                                                         *)
(* Pixels are not modelled: the canvas is the sequence of compositing      *)
(* operations applied to it.  Geometry fields (x, y, width, height) of     *)
(* overlays, boxes and text blocks, colours, fonts, auto colour and        *)
(* background removal do not influence control flow and are left out.      *)
(* A string is a sequence of one-character strings.  A path is a tuple.    *)
(***************************************************************************)
EXTENDS Integers, Sequences, FiniteSets, TLC

\* ---------------------------------------------------------------- bounds
MaxOverlays == 2
MaxBoxes == 2
MaxPhotos == 2
MaxBlocks == 1
MaxJobs == 2
MaxCalls == 2

VARIABLES
    template_cfg,   \* the shared template loaded once by the caller (main, line 461)
    loaded,         \* history: the template as it was loaded
    jobs,           \* the job list of load_jobs (main, line 462)
    args,           \* dry_run and font_scale passed to process_job
    files,          \* asset paths that exist on the file system
    pc,             \* position of the caller / inside process_job
    job_idx,        \* index in jobs of the job being processed (0: none yet)
    job,            \* process_job's job argument
    cfg,            \* process_job's deep copy of the template (line 374)
    base,           \* the canvas: sequence of compositing operations applied
    last_index,     \* process_job's last_index (line 404)
    log,            \* lines printed by the current process_job call
    disk,           \* output paths that base.save has written
    results,        \* history: one record per finished process_job call
    input,          \* argument of the pure function being called
    output          \* its result

vars == <<template_cfg, loaded, jobs, args, files, pc, job_idx, job, cfg, base,
          last_index, log, disk, results, input, output>>

\* ------------------------------------------------------------ characters
Letters ==
    {"a","b","c","d","e","f","g","h","i","j","k","l","m","n","o","p","q","r","s",
     "t","u","v","w","x","y","z","A","B","C","D","E","F","G","H","I","J","K","L",
     "M","N","O","P","Q","R","S","T","U","V","W","X","Y","Z"}

Digits == <<"0","1","2","3","4","5","6","7","8","9">>

DigitSet == {Digits[i] : i \in 1..10}

\* str.isalnum for one character
IsAlnum(ch) == ch \in Letters \cup DigitSet

\* str(k) for a single-digit index, as the f-string of line 432 formats last_index
IntToStr(k) == <<Digits[k + 1]>>

\* ------------------------------------------------------ sanitize_filename
\* line 440: keep alphanumerics, "_", "-" and " "
Cleaned(name) == SelectSeq(name, LAMBDA ch : IsAlnum(ch) \/ ch \in {"_", "-", " "})

RECURSIVE LStrip(_)
LStrip(s) == IF s # <<>> /\ Head(s) = " " THEN LStrip(Tail(s)) ELSE s

RECURSIVE RStrip(_)
RStrip(s) ==
    IF s # <<>> /\ s[Len(s)] = " " THEN RStrip(SubSeq(s, 1, Len(s) - 1)) ELSE s

\* str.strip (only " " survives Cleaned as white space)
Strip(s) == RStrip(LStrip(s))

\* "_".join(s.split()) on a stripped string: every run of spaces becomes one "_"
RECURSIVE JoinSplit(_)
JoinSplit(s) ==
    IF s = <<>> THEN <<>>
    ELSE IF Head(s) = " "
         THEN <<"_">> \o JoinSplit(LStrip(s))
         ELSE <<Head(s)>> \o JoinSplit(Tail(s))

\* lines 439-441
sanitize_filename(name) == JoinSplit(Strip(Cleaned(name)))

\* ------------------------------------------------------------ the template
NoPath == <<>>

BgPath == <<"background">>

OverlayPath(i) == <<"overlay", i>>

PhotoPath(j, i) == <<"photo", j, i>>

OutputDir == <<"output">>

Placements == {"before_photos", "after_photos", "top"}

\* the four keys of the substitutions mapping (lines 398-403)
SubstitutionKeys == {"recipient_name", "giver_name", "message", "project_name"}

\* dict.get(key, default)
Get(d, key, default) == IF key \in DOMAIN d THEN d[key] ELSE default

\* all sequences over S of length at most n
SeqsUpTo(S, n) == UNION {[1..k -> S] : k \in 0..n}

\* a raw overlay entry of the template: its path and placement
MkOverlays(ps) ==
    [i \in 1..Len(ps) |-> [path |-> OverlayPath(i), placement |-> ps[i]]]

\* a raw template: canvas config, photo boxes, text blocks, overlays
\* (load_template_config, lines 112-127)
Template(tp, nb, tb, ps) ==
    [canvas |-> [template_path |-> tp],
     photo_boxes |-> [i \in 1..nb |-> [box |-> i]],
     text_blocks |-> tb,
     overlays |-> MkOverlays(ps)]

\* A raw text block: text is the set of placeholder names its format string
\* references; size is present only when the template gives one.
GoodBlock == [text |-> {"recipient_name"}]

BadBlock == [text |-> {"nickname"}, size |-> 3]

SizedBlocks == {[text |-> {"recipient_name"}, size |-> s] : s \in {1, 3}}

\* ---------------------------------------------------------- process_job
Min(a, b) == IF a <= b THEN a ELSE b

Max(a, b) == IF a >= b THEN a ELSE b

\* Python's round(n / d) for n >= 0, d > 0: to nearest, ties to the even integer
PyRound(n, d) ==
    LET q == n \div d
        r == n % d
    IN  IF 2 * r < d THEN q
        ELSE IF 2 * r > d THEN q + 1
        ELSE IF q % 2 = 0 THEN q ELSE q + 1

\* line 269: a text block without "size" is parsed with size 48
DefaultTextSize == 48

\* lines 376-378: every raw block that has a "size" gets it scaled, minimum 1.
\* font_scale is the rational fs.num / fs.den.
ScaleTextBlocks(blocks, fs) ==
    [i \in DOMAIN blocks |->
        IF "size" \in DOMAIN blocks[i]
        THEN [blocks[i] EXCEPT !.size = Max(1, PyRound(@ * fs.num, fs.den))]
        ELSE blocks[i]]

\* lines 374-378: cfg, the deep copy of the template with font_scale applied
\* (font_scale != 1.0 is fs.num # fs.den)
ScaledCopy(t, fs) ==
    IF fs.num # fs.den THEN [t EXCEPT !.text_blocks = ScaleTextBlocks(@, fs)] ELSE t

\* what a job setup that scaled the caller's own template object would leave
AliasedTemplate(t, fs) == ScaledCopy(t, fs)

\* line 374: copy.deepcopy gives the job its own cfg, so the caller's template
\* object is what it was, whatever lines 375-378 write into cfg
CallerTemplate(t, fs) == t

\* lines 261-274: parse_text_blocks, size defaulting to 48
parse_text_blocks(raw_blocks) ==
    [i \in DOMAIN raw_blocks |->
        [text |-> raw_blocks[i].text,
         size |-> Get(raw_blocks[i], "size", DefaultTextSize)]]

\* lines 277-290: parse_overlays, placement defaulting to "after_photos"
parse_overlays(raw_overlays) ==
    [i \in DOMAIN raw_overlays |->
        [path |-> raw_overlays[i].path,
         placement |-> Get(raw_overlays[i], "placement", "after_photos")]]

\* lines 246-258: parse_photo_boxes
parse_photo_boxes(raw_boxes) == [i \in DOMAIN raw_boxes |-> raw_boxes[i]]

\* lines 369-372: job.get("photos") or []
PhotoList(j) == Get(j, "photos", <<>>)

\* one compositing operation on the canvas
Op(kind, idx, path, size) == [op |-> kind, idx |-> idx, path |-> path, size |-> size]

\* lines 293-309: create_base_canvas; st is [base, log]
create_base_canvas(canvas_cfg) ==
    LET tp == Get(canvas_cfg, "template_path", NoPath)
    IN  IF tp # NoPath /\ tp \in files
        THEN [base |-> <<Op("base_image", 0, tp, 0)>>, log |-> <<>>]
        ELSE [base |-> <<Op("base_color", 0, NoPath, 0)>>,
              log |-> IF tp # NoPath THEN <<<<"Template image not found", tp>>>>
                      ELSE <<>>]

\* an overlay pasted without looking for its file
paste_overlay_unchecked(st, overlay, i) ==
    [st EXCEPT !.base = Append(@, Op("overlay", i, overlay.path, 0))]

\* lines 204-215: paste_overlay; a missing file is logged and skipped
paste_overlay(st, overlay, i) ==
    IF overlay.path \notin files
    THEN [st EXCEPT !.log = Append(@, <<"Overlay not found", overlay.path>>)]
    ELSE [st EXCEPT !.base = Append(@, Op("overlay", i, overlay.path, 0))]

\* an overlay pass that ignores the placement tag
RECURSIVE OverlayPassAll(_, _, _, _)
OverlayPassAll(st, overlays, placement, i) ==
    IF i > Len(overlays) THEN st
    ELSE OverlayPassAll(paste_overlay(st, overlays[i], i), overlays, placement, i + 1)

\* lines 394-396, 421-423, 428-430: one pass over the overlays in template
\* order, pasting those of the given placement
RECURSIVE OverlayPass(_, _, _, _)
OverlayPass(st, overlays, placement, i) ==
    IF i > Len(overlays) THEN st
    ELSE OverlayPass(IF overlays[i].placement = placement
                     THEN paste_overlay(st, overlays[i], i)
                     ELSE st,
                     overlays, placement, i + 1)

\* the photo list taken whole
Unsliced(photos, n) == photos

\* line 405: photos[: len(photo_boxes)]
Sliced(photos, n) == SubSeq(photos, 1, Min(Len(photos), n))

\* lines 405-419, one iteration: idx is the 0-based loop index
PhotoStep(st, photo_path, idx) ==
    IF photo_path \notin files
    THEN [st EXCEPT !.last_index = idx,
                    !.log = Append(@, <<"Photo not found", photo_path>>)]
    ELSE [st EXCEPT !.last_index = idx,
                    !.base = Append(@, Op("photo", idx + 1, photo_path, 0))]

\* lines 404-419: the photo loop; st is [base, log, last_index]
RECURSIVE PhotoLoop(_, _, _)
PhotoLoop(st, photos, idx) ==
    IF idx >= Len(photos) THEN st
    ELSE PhotoLoop(PhotoStep(st, photos[idx + 1], idx), photos, idx + 1)

\* lines 227-243: draw_text; str.format raises KeyError on a placeholder that
\* is no key of the mapping, and ignores keys the text does not use
draw_text(st, block, i, substitutions) ==
    IF block.text \subseteq substitutions
    THEN [st EXCEPT !.base = Append(@, Op("text", i, NoPath, block.size))]
    ELSE [st EXCEPT !.err = "KeyError"]

\* lines 425-426: the text loop, left at the first exception; st is [base, err]
RECURSIVE TextLoop(_, _, _, _)
TextLoop(st, text_blocks, substitutions, i) ==
    IF i > Len(text_blocks) \/ st.err # "" THEN st
    ELSE TextLoop(draw_text(st, text_blocks[i], i, substitutions),
                  text_blocks, substitutions, i + 1)

\* "x or y" on strings: the empty string is falsy
Or(x, y) == IF x # <<>> THEN x ELSE y

\* line 432
OutName(j, k) ==
    Or(Get(j, "output_name", <<>>),
       Or(Get(j, "recipient_name", <<>>), <<"c","a","r","d">>)
          \o <<"_">> \o IntToStr(k) \o <<".","p","n","g">>)

\* line 433: output_dir / f"{sanitize_filename(out_name)}.png"
OutPath(j, k) == <<OutputDir, sanitize_filename(OutName(j, k)) \o <<".","p","n","g">>>>

\* ------------------------------------------------------------- the inputs
FontScales == {[num |-> 1, den |-> 2], [num |-> 1, den |-> 1], [num |-> 3, den |-> 2]}

One == [num |-> 1, den |-> 1]

\* the photo list of the job at position j of the job list, n photos long
Photos(j, n) == [i \in 1..n |-> PhotoPath(j, i)]

RecipientName == <<"A","l">>

\* the example of the sanitization property: "My Card! #1"
OutputName == <<"M","y"," ","C","a","r","d","!"," ","#","1">>

\* job records at position j: with and without recipient_name and output_name
JobsAt(j, maxPhotos) ==
    UNION {{[photos |-> Photos(j, n)],
            [photos |-> Photos(j, n), recipient_name |-> RecipientName],
            [photos |-> Photos(j, n), output_name |-> OutputName],
            [photos |-> Photos(j, n), recipient_name |-> RecipientName,
             output_name |-> <<>>]} : n \in 0..maxPhotos}

\* job lists of length n, the job at position j drawn from JobsAt(j, maxPhotos)
RECURSIVE JobLists(_, _)
JobLists(n, maxPhotos) ==
    IF n = 0 THEN {<<>>}
    ELSE {Append(js, j) : js \in JobLists(n - 1, maxPhotos), j \in JobsAt(n, maxPhotos)}

\* the asset paths a template and a job list refer to
Referenced(t, js) ==
    (IF t.canvas.template_path # NoPath THEN {t.canvas.template_path} ELSE {})
    \cup {t.overlays[i].path : i \in DOMAIN t.overlays}
    \cup UNION {{PhotoList(js[j])[i] : i \in DOMAIN PhotoList(js[j])} : j \in DOMAIN js}

\* One job, every template shape: background image given or not, 0..MaxBoxes
\* boxes, text blocks with defined and undefined placeholders, every overlay
\* list, every subset of the referenced assets missing.
InitWide ==
    /\ template_cfg \in {Template(tp, nb, tb, ps) :
            tp \in {NoPath, BgPath}, nb \in 0..MaxBoxes,
            tb \in SeqsUpTo({GoodBlock, BadBlock}, MaxBlocks),
            ps \in SeqsUpTo(Placements, MaxOverlays)}
    /\ jobs \in {<<[photos |-> Photos(1, n)]>> : n \in 0..MaxPhotos}
    /\ files \in SUBSET Referenced(template_cfg, jobs)
    /\ args \in [dry_run : BOOLEAN, font_scale : {One}]

\* Up to MaxJobs jobs with every naming variant, one box, all assets present.
InitJobs ==
    /\ template_cfg \in {Template(NoPath, 1, tb, <<>>) :
            tb \in SeqsUpTo({GoodBlock, BadBlock}, MaxBlocks)}
    /\ jobs \in UNION {JobLists(n, 1) : n \in 0..MaxJobs}
    /\ files = Referenced(template_cfg, jobs)
    /\ args \in [dry_run : BOOLEAN, font_scale : FontScales]

\* the state before the first call
InitRest ==
    /\ loaded = template_cfg
    /\ pc = "start"
    /\ job_idx = 0
    /\ job = [photos |-> <<>>]
    /\ cfg = template_cfg
    /\ base = <<>>
    /\ last_index = 0
    /\ log = <<>>
    /\ disk = {}
    /\ results = <<>>
    /\ input = <<>>
    /\ output = <<>>

\* main, lines 459-463: template and jobs loaded, nothing rendered yet
Init == (InitWide \/ InitJobs) /\ InitRest

\* ------------------------------------------------------------- the actions
\* the sizes of the text operations on a canvas, in drawing order
TextSizes(canvas) ==
    LET texts == SelectSeq(canvas, LAMBDA o : o.op = "text")
    IN  [i \in DOMAIN texts |-> texts[i].size]

\* the record of a finished call: the job, the arguments, how the call ended,
\* the path returned, whether a file was written, the text sizes rendered
Result(outcome, path, saved) ==
    [idx |-> job_idx, dry_run |-> args.dry_run, font_scale |-> args.font_scale,
     outcome |-> outcome, path |-> path, saved |-> saved, sizes |-> TextSizes(base)]

\* process_job, lines 369-384: photo list, deep copy, font scaling, base canvas
Enter(j, a) ==
    LET st == create_base_canvas(ScaledCopy(template_cfg, a.font_scale).canvas)
    IN  /\ job' = j
        /\ args' = a
        /\ cfg' = ScaledCopy(template_cfg, a.font_scale)
        /\ template_cfg' = CallerTemplate(template_cfg, a.font_scale)
        /\ base' = st.base
        /\ log' = st.log
        /\ last_index' = 0
        /\ pc' = "check"
        /\ UNCHANGED <<loaded, jobs, files, disk, results, input, output>>

\* main, lines 469-479: the next job of the list is handed to process_job
MainLoop ==
    /\ pc \in {"start", "returned"}
    /\ job_idx < Len(jobs)
    /\ job_idx' = job_idx + 1
    /\ Enter(jobs[job_idx + 1], args)

\* main, lines 465-467 and the end of the for loop: no job is left
MainExit ==
    /\ pc \in {"start", "returned"}
    /\ job_idx = Len(jobs)
    /\ pc' = "exit"
    /\ log' = IF jobs = <<>> THEN <<<<"No jobs found", NoPath>>>> ELSE log
    /\ UNCHANGED <<template_cfg, loaded, jobs, args, files, job_idx, job, cfg, base,
                   last_index, disk, results, input, output>>

\* a check that never fires
NoBoxesNever(photos, photo_boxes) == FALSE

\* line 386: photos and not photo_boxes
NoBoxesForPhotos(photos, photo_boxes) == photos # <<>> /\ photo_boxes = <<>>

\* lines 386-392: photos without boxes raise; more photos than boxes warn
CheckBoxes ==
    /\ pc = "check"
    /\ LET photos == PhotoList(job)
           photo_boxes == parse_photo_boxes(cfg.photo_boxes)
       IN  IF NoBoxesForPhotos(photos, photo_boxes)
           THEN /\ pc' = "raised"
                /\ results' = Append(results, Result("ValueError", NoPath, FALSE))
                /\ log' = log
           ELSE /\ pc' = "before_photos"
                /\ results' = results
                /\ log' = IF Len(photos) > Len(photo_boxes)
                          THEN Append(log, <<"Warning: extra photos ignored", NoPath>>)
                          ELSE log
    /\ UNCHANGED <<template_cfg, loaded, jobs, args, files, job_idx, job, cfg, base,
                   last_index, disk, input, output>>

\* an overlay phase: lines 394-396, 421-423, 428-430
OverlayPhase(placement, next) ==
    /\ pc = placement
    /\ LET st == OverlayPass([base |-> base, log |-> log],
                             parse_overlays(cfg.overlays), placement, 1)
       IN  /\ base' = st.base
           /\ log' = st.log
    /\ pc' = next
    /\ UNCHANGED <<template_cfg, loaded, jobs, args, files, job_idx, job, cfg,
                   last_index, disk, results, input, output>>

PasteBefore == OverlayPhase("before_photos", "photos")

\* lines 398-419: the photo loop over photos[: len(photo_boxes)]
PastePhotos ==
    /\ pc = "photos"
    /\ LET photo_boxes == parse_photo_boxes(cfg.photo_boxes)
           st == PhotoLoop([base |-> base, log |-> log, last_index |-> 0],
                           Sliced(PhotoList(job), Len(photo_boxes)), 0)
       IN  /\ base' = st.base
           /\ log' = st.log
           /\ last_index' = st.last_index
    /\ pc' = "after_photos"
    /\ UNCHANGED <<template_cfg, loaded, jobs, args, files, job_idx, job, cfg,
                   disk, results, input, output>>

PasteAfter == OverlayPhase("after_photos", "text")

\* lines 425-426: the text loop; a KeyError leaves process_job
DrawTexts ==
    /\ pc = "text"
    /\ LET st == TextLoop([base |-> base, err |-> ""],
                          parse_text_blocks(cfg.text_blocks), SubstitutionKeys, 1)
       IN  /\ base' = st.base
           /\ IF st.err # ""
              THEN /\ pc' = "raised"
                   /\ results' = Append(results, Result(st.err, NoPath, FALSE))
              ELSE /\ pc' = "top"
                   /\ results' = results
    /\ UNCHANGED <<template_cfg, loaded, jobs, args, files, job_idx, job, cfg,
                   last_index, log, disk, input, output>>

PasteTop == OverlayPhase("top", "save")

\* a save that ignores dry_run
SavedAlways(d, out_path, dry_run) == d \cup {out_path}

\* lines 434-435: the file written by base.save, none in a dry run
Saved(d, out_path, dry_run) == IF ~dry_run THEN d \cup {out_path} ELSE d

\* lines 432-436: name, path, save unless dry run, return the path
Finish ==
    /\ pc = "save"
    /\ LET out_path == OutPath(job, last_index)
       IN  /\ disk' = Saved(disk, out_path, args.dry_run)
           /\ results' = Append(results, Result("returned", out_path, ~args.dry_run))
    /\ pc' = "returned"
    /\ UNCHANGED <<template_cfg, loaded, jobs, args, files, job_idx, job, cfg, base,
                   last_index, log, input, output>>

ProcessJobStep ==
    \/ CheckBoxes
    \/ PasteBefore
    \/ PastePhotos
    \/ PasteAfter
    \/ DrawTexts
    \/ PasteTop
    \/ Finish

Next == MainLoop \/ MainExit \/ ProcessJobStep

\* main: the template and the jobs loaded, then the job loop
Spec == Init /\ [][Next]_vars

\* ------------------------------------------- process_job called directly
\* One template with sized and unsized text blocks, one job; the caller
\* chooses dry_run and font_scale per call, and assets come and go between
\* the calls.
InitCalls ==
    /\ template_cfg \in {Template(NoPath, 1, tb, <<>>) :
            tb \in SeqsUpTo(SizedBlocks \cup {GoodBlock}, MaxBlocks)}
    /\ jobs \in JobLists(1, MaxPhotos)
    /\ files \in SUBSET Referenced(template_cfg, jobs)
    /\ args = [dry_run |-> FALSE, font_scale |-> One]
    /\ InitRest

\* a caller of process_job (the signature of lines 359-368): any job of the
\* list, any dry_run and font_scale, also after a call that raised
Call ==
    /\ pc \in {"start", "returned", "raised"}
    /\ Len(results) < MaxCalls
    /\ \E k \in DOMAIN jobs, a \in [dry_run : BOOLEAN, font_scale : FontScales] :
          /\ job_idx' = k
          /\ Enter(jobs[k], a)

\* the file system between two calls: an asset file appears or disappears
Touch ==
    /\ pc \in {"start", "returned", "raised"}
    /\ \E p \in Referenced(loaded, jobs) :
          files' = IF p \in files THEN files \ {p} ELSE files \cup {p}
    /\ UNCHANGED <<template_cfg, loaded, jobs, args, pc, job_idx, job, cfg, base,
                   last_index, log, disk, results, input, output>>

NextCalls == Call \/ Touch \/ ProcessJobStep

SpecCalls == InitCalls /\ [][NextCalls]_vars

\* ------------------------------------------------------------- hex_to_rgb
MaxHexLen == 7

\* characters of the colour strings tried: "#", hexadecimal digits, a letter
\* that is no hexadecimal digit, a blank, a sign
HexAlphabet == {"#", "0", "a", "g", " ", "-"}

HexDigits == <<"0","1","2","3","4","5","6","7","8","9","a","b","c","d","e","f">>

HexUpper == <<"0","1","2","3","4","5","6","7","8","9","A","B","C","D","E","F">>

IsHexDigit(ch) == \E i \in 1..16 : HexDigits[i] = ch \/ HexUpper[i] = ch

HexDigitValue(ch) == (CHOOSE i \in 1..16 : HexDigits[i] = ch \/ HexUpper[i] = ch) - 1

RECURSIVE HexValue(_)
HexValue(s) ==
    IF s = <<>> THEN 0 ELSE 16 * HexValue(SubSeq(s, 1, Len(s) - 1)) + HexDigitValue(s[Len(s)])

\* Python's int(s, 16) on the one- and two-character strings of lines 451 and
\* 453: surrounding blanks are stripped, one sign is accepted, what is left
\* must be hexadecimal digits and not empty; anything else is a ValueError.
Int16(s) ==
    LET t == Strip(s)
        signed == t # <<>> /\ t[1] \in {"+", "-"}
        digits == IF signed THEN Tail(t) ELSE t
    IN  IF digits # <<>> /\ \A i \in DOMAIN digits : IsHexDigit(digits[i])
        THEN [raised |-> FALSE,
              value |-> IF signed /\ t[1] = "-" THEN 0 - HexValue(digits)
                        ELSE HexValue(digits)]
        ELSE [raised |-> TRUE, value |-> 0]

\* lines 446, 449, 455
DefaultRgb == <<245, 246, 250>>

\* the triple of three parsed channels, or the exception of the first bad one
Channels(r, g, b) ==
    IF r.raised \/ g.raised \/ b.raised
    THEN [raised |-> TRUE, value |-> <<>>]
    ELSE [raised |-> FALSE, value |-> <<r.value, g.value, b.value>>]

\* lines 444-456; color is [is_str, chars]
hex_to_rgb(color) ==
    IF ~color.is_str THEN [raised |-> FALSE, value |-> DefaultRgb]
    ELSE LET c == Strip(color.chars)
         IN  IF c = <<>> \/ c[1] # "#" THEN [raised |-> FALSE, value |-> DefaultRgb]
             ELSE IF Len(c) = 4
                  THEN Channels(Int16(<<c[2], c[2]>>), Int16(<<c[3], c[3]>>),
                                Int16(<<c[4], c[4]>>))
             ELSE IF Len(c) = 7
                  THEN Channels(Int16(<<c[2], c[3]>>), Int16(<<c[4], c[5]>>),
                                Int16(<<c[6], c[7]>>))
             ELSE [raised |-> FALSE, value |-> DefaultRgb]

\* the pipeline at rest while a pure function is called
InitIdle ==
    /\ template_cfg = Template(NoPath, 0, <<>>, <<>>)
    /\ jobs = <<>>
    /\ files = {}
    /\ args = [dry_run |-> FALSE, font_scale |-> One]
    /\ loaded = template_cfg
    /\ job_idx = 0
    /\ job = [photos |-> <<>>]
    /\ cfg = template_cfg
    /\ base = <<>>
    /\ last_index = 0
    /\ log = <<>>
    /\ disk = {}
    /\ results = <<>>
    /\ output = <<>>

InitHex ==
    /\ InitIdle
    /\ pc = "hex"
    /\ input \in {[is_str |-> TRUE, chars |-> s] : s \in SeqsUpTo(HexAlphabet, MaxHexLen)}
                 \cup {[is_str |-> FALSE, chars |-> <<>>]}

\* one call hex_to_rgb(input)
HexCall ==
    /\ pc = "hex"
    /\ output' = hex_to_rgb(input)
    /\ pc' = "hex_done"
    /\ UNCHANGED <<template_cfg, loaded, jobs, args, files, job_idx, job, cfg, base,
                   last_index, log, disk, results, input>>

SpecHex == InitHex /\ [][HexCall]_vars

\* -------------------------------------------------------------- fit_image
MaxDim == 9

\* explicit fraction bits of a binary64 float
MantissaBits == 52

RECURSIVE Pow2(_)
Pow2(n) == IF n = 0 THEN 1 ELSE 2 * Pow2(n - 1)

\* floor(log2(n / d)) for n, d > 0
RECURSIVE FloorLog2(_, _)
FloorLog2(n, d) ==
    IF n >= d THEN (IF 2 * d <= n THEN 1 + FloorLog2(n, 2 * d) ELSE 0)
    ELSE FloorLog2(2 * n, d) - 1

\* (n * 2^s) mod d
RECURSIVE ShiftMod(_, _, _)
ShiftMod(n, d, s) == IF s = 0 THEN n % d ELSE (2 * ShiftMod(n, d, s - 1)) % d

\* Line 180, img_ratio = img.width / img.height in binary64.  With
\* e = floor(log2(iw/ih)) the quotient is rounded to a multiple of
\* ulp = 2^(e-52); r = (iw * 2^(52-e)) mod ih is what the rounding drops.
\* The value is the signed rounding error in units of ulp/ih: 0 when iw/ih is
\* a float, ih - r when rounded up, -r when rounded down (2r = ih would need
\* a 54-bit quotient, which no iw below 2^53 gives).
RatioError(iw, ih) ==
    LET r == ShiftMod(iw, ih, MantissaBits - FloorLog2(iw, ih))
    IN  IF r = 0 THEN 0 ELSE IF 2 * r > ih THEN ih - r ELSE 0 - r

\* int(x) for the float nearest to k - k * err * ulp / iw, k a positive integer
\* and err > 0: the result is k when the deficit is at most half the gap
\* between k and the float below it (2^(j-53), or 2^(j-54) when k = 2^j,
\* j = floor(log2 k); a tie rounds to k, whose mantissa is even), else k - 1.
TruncBelow(k, err, iw, e) ==
    LET j == FloorLog2(k, 1)
        lhs == (IF Pow2(j) = k THEN 4 ELSE 2) * k * err
    IN  IF (IF e >= j THEN lhs * Pow2(e - j) <= iw ELSE lhs <= iw * Pow2(j - e))
        THEN k ELSE k - 1

\* line 185: int(height * img_ratio)
FloatMulTrunc(h, iw, ih) ==
    IF (h * iw) % ih # 0 THEN (h * iw) \div ih
    ELSE IF RatioError(iw, ih) >= 0 THEN (h * iw) \div ih
    ELSE TruncBelow((h * iw) \div ih, 0 - RatioError(iw, ih), iw, FloorLog2(iw, ih))

\* line 188: int(width / img_ratio)
FloatDivTrunc(w, iw, ih) ==
    IF (w * ih) % iw # 0 THEN (w * ih) \div iw
    ELSE IF RatioError(iw, ih) <= 0 THEN (w * ih) \div iw
    ELSE TruncBelow((w * ih) \div iw, RatioError(iw, ih), iw, FloorLog2(iw, ih))

\* lines 178-194; img_ratio > target_ratio compares two correctly rounded
\* quotients of small integers, which order as the fractions do
fit_image(iw, ih, width, height) ==
    LET wider == iw * height > width * ih
        new_width == IF wider THEN FloatMulTrunc(height, iw, ih) ELSE width
        new_height == IF wider THEN height ELSE FloatDivTrunc(width, iw, ih)
        left == (new_width - width) \div 2
        top == (new_height - height) \div 2
        box == <<left, top, left + width, top + height>>
    IN  [new_width |-> new_width, new_height |-> new_height,
         left |-> left, top |-> top,
         size |-> <<box[3] - box[1], box[4] - box[2]>>]

InitFit ==
    /\ InitIdle
    /\ pc = "fit"
    /\ input \in [iw : 1..MaxDim, ih : 1..MaxDim, width : 1..MaxDim, height : 1..MaxDim]

\* one call fit_image(img, width, height) on an image of iw x ih pixels
FitCall ==
    /\ pc = "fit"
    /\ output' = fit_image(input.iw, input.ih, input.width, input.height)
    /\ pc' = "fit_done"
    /\ UNCHANGED <<template_cfg, loaded, jobs, args, files, job_idx, job, cfg, base,
                   last_index, log, disk, results, input>>

SpecFit == InitFit /\ [][FitCall]_vars

\* ------------------------------------------------------------ the claims
Last(seq) == seq[Len(seq)]

Range(seq) == {seq[i] : i \in DOMAIN seq}

\* the operations of one kind on the canvas, in the order applied
OpsOf(kind) == SelectSeq(base, LAMBDA o : o.op = kind)

\* a call of process_job has begun and its check of the boxes is done
PastCheck == pc \in {"before_photos", "photos", "after_photos", "text", "top",
                     "save", "returned", "raised"}

\* every text block of the job's template references defined placeholders only
TextsResolvable ==
    \A i \in DOMAIN cfg.text_blocks : cfg.text_blocks[i].text \subseteq SubstitutionKeys

\* the phase of a compositing operation: 0 the base canvas, 1 before_photos
\* overlays, 2 photos, 3 after_photos overlays, 4 text, 5 top overlays
PhaseOf(o) ==
    IF o.op = "overlay"
    THEN LET pl == cfg.overlays[o.idx].placement
         IN  IF pl = "before_photos" THEN 1 ELSE IF pl = "after_photos" THEN 3 ELSE 5
    ELSE IF o.op = "photo" THEN 2
    ELSE IF o.op = "text" THEN 4
    ELSE 0

\* C1: at every moment of every process_job run the operations applied to the
\* canvas so far are in phase order (before_photos overlays, photos,
\* after_photos overlays, text, top overlays), whatever the order of the
\* overlays in the template, and the overlays of one phase are in template
\* order.
PhaseOrder ==
    \A i, j \in DOMAIN base :
        i < j =>
            /\ PhaseOf(base[i]) <= PhaseOf(base[j])
            /\ (base[i].op = "overlay" /\ base[j].op = "overlay"
                /\ PhaseOf(base[i]) = PhaseOf(base[j])) => base[i].idx < base[j].idx

\* C1's case: a finished run whose template lists a top overlay before a
\* before_photos overlay, both pasted, with a photo and a text in between
PhaseOrderWitness ==
    /\ pc = "returned"
    /\ Len(cfg.overlays) >= 2
    /\ cfg.overlays[1].placement = "top"
    /\ cfg.overlays[2].placement = "before_photos"
    /\ Len(OpsOf("overlay")) >= 2
    /\ OpsOf("photo") # <<>>
    /\ OpsOf("text") # <<>>

\* C2: a job with photos on a template without photo boxes ends in the
\* exception of line 387 (the spec's ConfigError), with nothing composited on
\* the base canvas and no file written by the call.
ZeroBoxesFail ==
    (PastCheck /\ PhotoList(job) # <<>> /\ cfg.photo_boxes = <<>>) =>
        /\ pc = "raised"
        /\ Last(results).idx = job_idx
        /\ Last(results).outcome = "ValueError"
        /\ ~Last(results).saved
        /\ Len(base) = 1
        /\ disk = {results[i].path : i \in {k \in 1..(Len(results) - 1) : results[k].saved}}

\* C2's case: the exception was raised for a job with photos and no boxes
ZeroBoxesWitness ==
    /\ pc = "raised"
    /\ PhotoList(job) # <<>>
    /\ cfg.photo_boxes = <<>>
    /\ cfg.overlays # <<>>
    /\ cfg.text_blocks # <<>>

\* the job has more photos than the template has boxes, at least one box, and
\* every photo file exists
ExcessCase ==
    /\ PastCheck
    /\ Len(cfg.photo_boxes) >= 1
    /\ Len(PhotoList(job)) > Len(cfg.photo_boxes)
    /\ Range(PhotoList(job)) \subseteq files

\* C3: with P > B >= 1 photos, all present, the warning is logged, the photos
\* pasted are exactly photos[0..B-1], photo i into box i, no photo beyond is
\* touched, the check of the boxes raises nothing, and unless a text block
\* has an undefined placeholder (C10) the call raises nothing and returns the
\* output path.
ExcessPhotosIgnored ==
    ExcessCase =>
        /\ <<"Warning: extra photos ignored", NoPath>> \in Range(log)
        /\ Range(log) \cap {<<"Photo not found", p>> : p \in Range(PhotoList(job))} = {}
        /\ OpsOf("photo") =
              IF pc \in {"before_photos", "photos"} THEN <<>>
              ELSE [i \in 1..Len(cfg.photo_boxes) |-> Op("photo", i, PhotoList(job)[i], 0)]
        /\ pc = "raised" => (Last(results).outcome = "KeyError" /\ ~TextsResolvable)
        /\ pc = "returned" =>
              /\ Last(results).outcome = "returned"
              /\ Last(results).path # NoPath
              /\ Last(results).path[1] = OutputDir

\* C3's case: a call with excess photos has returned
ExcessPhotosWitness ==
    /\ ExcessCase
    /\ pc = "returned"
    /\ cfg.text_blocks # <<>>

\* C4: no dry-run call writes a file (the files on disk are exactly the paths
\* returned by the calls without dry_run), and all calls for one job return
\* the same path, with or without dry_run, whatever font_scale and whichever
\* asset files exist at the time.
DryRunWritesNothing ==
    /\ disk = {results[i].path :
                  i \in {k \in DOMAIN results :
                            results[k].outcome = "returned" /\ ~results[k].dry_run}}
    /\ \A i, k \in DOMAIN results :
          (results[i].idx = results[k].idx /\ results[i].outcome = "returned"
           /\ results[k].outcome = "returned") => results[i].path = results[k].path

\* C4's case: the same job was run dry and not dry, and only the second
\* call's file is on disk
DryRunWitness ==
    /\ Len(results) = 2
    /\ results[1].dry_run /\ results[1].outcome = "returned"
    /\ ~results[2].dry_run /\ results[2].outcome = "returned"
    /\ results[1].idx = results[2].idx
    /\ results[1].font_scale # results[2].font_scale
    /\ disk # {}

\* C5: the caller's template is never changed by process_job, and the text
\* sizes a call renders are a function of its own font_scale: two calls with
\* the same font_scale render the same sizes, whatever was called in between.
TemplateIsolated ==
    /\ template_cfg = loaded
    /\ \A i, k \in DOMAIN results :
          (results[i].outcome = "returned" /\ results[k].outcome = "returned"
           /\ results[i].font_scale = results[k].font_scale)
          => results[i].sizes = results[k].sizes

\* C5's case: two calls with different font scales, neither 1.0, on a template
\* with a sized text block, rendering different sizes
TemplateIsolatedWitness ==
    /\ Len(results) = 2
    /\ results[1].outcome = "returned" /\ results[2].outcome = "returned"
    /\ results[1].font_scale # One /\ results[2].font_scale # One
    /\ results[1].font_scale # results[2].font_scale
    /\ results[1].sizes # results[2].sizes
    /\ \E i \in DOMAIN loaded.text_blocks : "size" \in DOMAIN loaded.text_blocks[i]

\* the name the output file is specified to have before sanitization
SpecifiedName(j, k) ==
    IF Get(j, "output_name", <<>>) # <<>> THEN j.output_name
    ELSE Or(Get(j, "recipient_name", <<>>), <<"c","a","r","d">>) \o <<"_">> \o IntToStr(k)

\* C6: the returned path is output_dir / (sanitized_name + ".png"), the
\* sanitization of output_name when given and of "{recipient_name or
\* 'card'}_{k}" otherwise, k the index of the last photo slot attempted; the
\* sanitized name holds only alphanumerics, "_" and "-".
OutputPathAsSpecified ==
    pc = "returned" =>
        LET k == Max(0, Min(Len(PhotoList(job)), Len(cfg.photo_boxes)) - 1)
            name == sanitize_filename(SpecifiedName(job, k))
        IN  /\ Last(results).path = <<OutputDir, name \o <<".","p","n","g">>>>
            /\ \A i \in DOMAIN name : IsAlnum(name[i]) \/ name[i] \in {"_", "-"}

\* the indices of the operations of one kind on the canvas
IdxOf(kind) == {o.idx : o \in Range(OpsOf(kind))}

\* C9: whatever assets are missing, a call raises only for photos without
\* boxes (C2) or an undefined placeholder (C10), never for a missing file;
\* the base is the background image when its file exists and the flat colour
\* otherwise; a call that returns has composited every present overlay, every
\* present photo that has a box and every text block, each once, has skipped
\* and logged every missing one, and has written its one file unless dry_run.
MissingAssetsSkipped ==
    pc \in {"returned", "raised"} =>
        LET ov == cfg.overlays
            photos == Sliced(PhotoList(job), Len(cfg.photo_boxes))
            tp == cfg.canvas.template_path
        IN  /\ pc = "raised" =>
                  \/ /\ Last(results).outcome = "ValueError"
                     /\ PhotoList(job) # <<>> /\ cfg.photo_boxes = <<>>
                  \/ /\ Last(results).outcome = "KeyError"
                     /\ ~TextsResolvable
            /\ base[1].op = IF tp # NoPath /\ tp \in files THEN "base_image"
                            ELSE "base_color"
            /\ (tp # NoPath /\ tp \notin files)
                  => <<"Template image not found", tp>> \in Range(log)
            /\ pc = "returned" =>
                  /\ IdxOf("overlay") = {i \in DOMAIN ov : ov[i].path \in files}
                  /\ IdxOf("photo") = {i \in DOMAIN photos : photos[i] \in files}
                  /\ IdxOf("text") = DOMAIN cfg.text_blocks
                  /\ Len(base) = 1 + Cardinality(IdxOf("overlay"))
                                   + Cardinality(IdxOf("photo"))
                                   + Cardinality(IdxOf("text"))
                  /\ \A i \in DOMAIN ov :
                        ov[i].path \notin files
                            => <<"Overlay not found", ov[i].path>> \in Range(log)
                  /\ \A i \in DOMAIN photos :
                        photos[i] \notin files
                            => <<"Photo not found", photos[i]>> \in Range(log)
                  /\ Last(results).saved = ~args.dry_run
                  /\ ~args.dry_run => Last(results).path \in disk
                  /\ Cardinality(disk)
                        <= Cardinality({i \in DOMAIN results : results[i].saved})

\* C9's case: a non-dry run returned although the background image, an
\* overlay and a photo were missing, with another overlay and photo pasted
MissingAssetsWitness ==
    /\ pc = "returned"
    /\ ~args.dry_run
    /\ cfg.canvas.template_path # NoPath
    /\ cfg.canvas.template_path \notin files
    /\ \E i \in DOMAIN cfg.overlays : cfg.overlays[i].path \notin files
    /\ \E i \in DOMAIN PhotoList(job) :
          i <= Len(cfg.photo_boxes) /\ PhotoList(job)[i] \notin files
    /\ OpsOf("overlay") # <<>>
    /\ OpsOf("photo") # <<>>
    /\ disk # {}

\* C10: an undefined placeholder is fatal to its job only: the job writes no
\* file, and the run does not stop on it while jobs of the list are left to
\* render; placeholders the text does not use cause no error.
SubstitutionErrorFatalToJobOnly ==
    /\ (pc = "raised" /\ Last(results).outcome = "KeyError") =>
          /\ ~Last(results).saved
          /\ job_idx = Len(jobs)
    /\ (pc = "raised" /\ TextsResolvable) => Last(results).outcome # "KeyError"

\* a "#" followed by exactly n hexadecimal digits
IsHexColor(c, n) ==
    /\ Len(c) = n + 1
    /\ c[1] = "#"
    /\ \A i \in 2..Len(c) : IsHexDigit(c[i])

\* "#abc" written out as "#aabbcc"
Expanded(c) == <<"#", c[2], c[2], c[3], c[3], c[4], c[4]>>

\* C7: hex_to_rgb raises for no input and returns a triple; "#abc" gives the
\* triple of "#aabbcc"; every input that is not "#" and three or six
\* hexadecimal digits (blanks around it aside) gives the default
\* (245, 246, 250).
HexNeverRaises ==
    pc = "hex_done" =>
        LET c == Strip(input.chars)
        IN  /\ ~output.raised
            /\ Len(output.value) = 3
            /\ (input.is_str /\ IsHexColor(c, 3))
                  => output = hex_to_rgb([is_str |-> TRUE, chars |-> Expanded(c)])
            /\ ~(input.is_str /\ (IsHexColor(c, 3) \/ IsHexColor(c, 6)))
                  => output.value = DefaultRgb

\* C8: fit_image resizes to (nw, nh) covering the box, nw >= w and nh >= h
\* with one of them equal, crops at left = (nw - w) div 2 and
\* top = (nh - h) div 2, both >= 0, and returns exactly (w, h) pixels.
FitCoversBox ==
    pc = "fit_done" =>
        /\ output.new_width >= input.width
        /\ output.new_height >= input.height
        /\ output.new_width = input.width \/ output.new_height = input.height
        /\ output.left = (output.new_width - input.width) \div 2
        /\ output.top = (output.new_height - input.height) \div 2
        /\ output.left >= 0
        /\ output.top >= 0
        /\ output.size = <<input.width, input.height>>

\* a run of main that ended with every job of a non-empty list returned and
\* dry_run off
SuccessfulRun ==
    /\ pc = "exit"
    /\ jobs # <<>>
    /\ ~args.dry_run
    /\ Len(results) = Len(jobs)
    /\ \A i \in DOMAIN results : results[i].outcome = "returned"

\* C11: a successful non-dry run over N jobs processes the jobs in input
\* order with exactly one save per job, and ends with N distinct files in the
\* output directory, no job's file overwritten by a later job of the run.
OneFilePerJob ==
    SuccessfulRun =>
        /\ \A i \in DOMAIN results : results[i].idx = i /\ results[i].saved
        /\ Cardinality(disk) = Len(jobs)
        /\ \A i, k \in DOMAIN results : i < k => results[i].path # results[k].path

\* the sizes the text blocks of the loaded template are stated to be rendered
\* at under font_scale fs: max(1, round(s * font_scale)), s the parsed size
StatedSizes(fs) ==
    LET parsed == parse_text_blocks(loaded.text_blocks)
    IN  [i \in DOMAIN parsed |-> Max(1, PyRound(parsed[i].size * fs.num, fs.den))]

\* C12: for any font_scale, every text block of the template is rendered at
\* max(1, round(s * font_scale)), s its explicit size or the default 48 when
\* it gives none; every block is scaled and no rendered size is below 1.
EveryBlockScaled ==
    \A i \in DOMAIN results :
        results[i].outcome = "returned" =>
            /\ results[i].sizes = StatedSizes(results[i].font_scale)
            /\ \A k \in DOMAIN results[i].sizes : results[i].sizes[k] >= 1

====
